---- MODULE Spec2Model ----
(***************************************************************************)
(* Model of the chart pages of the Seasonal Forecasting dashboard:         *)
(*   - RainfallD3Page (src/src/RainfallD3Page.js): selection handlers, the *)
(*     chart-data and crop-limit load effects, the D3 render effect with   *)
(*     its nested band scales, the zoom handler and handleResetZoom;       *)
(*   - TrendsD3Page (src/src/TrendsD3Page.js): the load effects guarded by *)
(*     their `ignore` flags.                                               *)
(* Pixel values are exact rationals <<numerator, denominator>>.            *)
(***************************************************************************)
EXTENDS Integers, Sequences, FiniteSets, TLC

(***************************************************************************)
(* Exact rational arithmetic                                               *)
(***************************************************************************)
RECURSIVE GCD(_, _)
GCD(a, b) == IF b = 0 THEN a ELSE GCD(b, a % b)

Abs(n) == IF n < 0 THEN 0 - n ELSE n

\* the rational n/d (d # 0) in lowest terms with a positive denominator
Norm(n, d) ==
  LET g == GCD(Abs(n), Abs(d))
      s == IF d < 0 THEN 0 - 1 ELSE 1
  IN  <<(s * n) \div g, (s * d) \div g>>

R(n) == <<n, 1>>

\* the four operations without the reduction to lowest terms, for the inner
\* steps of a formula whose result is reduced once
QAdd(p, q) == <<p[1] * q[2] + q[1] * p[2], p[2] * q[2]>>
QSub(p, q) == <<p[1] * q[2] - q[1] * p[2], p[2] * q[2]>>
QMul(p, q) == <<p[1] * q[1], p[2] * q[2]>>
QDiv(p, q) == <<p[1] * q[2], p[2] * q[1]>>
Reduced(p) == Norm(p[1], p[2])
RAdd(p, q) == Norm(p[1] * q[2] + q[1] * p[2], p[2] * q[2])
RSub(p, q) == Norm(p[1] * q[2] - q[1] * p[2], p[2] * q[2])
RMul(p, q) == Norm(p[1] * q[1], p[2] * q[2])
RDiv(p, q) == Norm(p[1] * q[2], p[2] * q[1])
RLe(p, q) == p[1] * q[2] <= q[1] * p[2]
RLt(p, q) == p[1] * q[2] < q[1] * p[2]
RMax(p, q) == IF RLt(p, q) THEN q ELSE p

\* the value JavaScript calls undefined, where a number was expected
Undef == <<0, 0>>

(***************************************************************************)
(* Bounds of the model                                                     *)
(***************************************************************************)
\* chart loads that may be in flight at once
MaxLoads == 1
\* crop-limit requests that may be in flight at once
MaxCropLoads == 1

\* TrendsD3Page: effect runs that may wait for their fetch at once
MaxRuns == 2
MaxCropRuns == 1

\* plot area of the svg, in pixels (clientWidth/clientHeight less margins)
width == 1
height == 1

(***************************************************************************)
(* Program constants                                                       *)
(***************************************************************************)
YEAR_OPTIONS == {2023, 2024, 2025}
\* the twelve month labels of MONTHS, by month number
NumMonths == 12
MONTHS == 1 .. NumMonths

\* zoom.scaleExtent([1, 5])
MinK == 1
MaxK == 5

\* scaleBand paddings of x0, x1, x2
Pad0 == <<1, 5>>
Pad1 == <<1, 10>>
Pad2 == <<1, 20>>

(***************************************************************************)
(* The collaborators' data: what the API answers                           *)
(***************************************************************************)
\* station ids offered by /rainfall/stations
Stations == {1, 2}
\* crops offered by /rainfall/crops, and the answers of /crop/rainfall-limits
\* (a proper range, a degenerate one at 0 and an inverted one)
Crops == {"wheat", "barley", "canola"}
NoCrop == ""
NoLimits == [min |-> Undef, max |-> Undef]
LimitsOf(crop) ==
  CASE crop = "wheat" -> [min |-> R(20), max |-> R(30)]
    [] crop = "barley" -> [min |-> R(0), max |-> R(0)]
    [] OTHER -> [min |-> R(60), max |-> R(20)]

\* TrendsD3Page: states offered by /states, the months a user picks among,
\* the days a month's rows cover and the answer of /crop/limits
ApiStates == {"NSW", "VIC"}
TrendMonths == {1, 2}
TrendDays == {1, 2}
NoTrendLimits == [min |-> 0 - 1, max |-> 0 - 1, best |-> 0 - 1]
TrendLimitsOf(crop) ==
  CASE crop = "wheat" -> [min |-> 10, max |-> 30, best |-> 20]
    [] crop = "barley" -> [min |-> 20, max |-> 20, best |-> 20]
    [] OTHER -> [min |-> 30, max |-> 10, best |-> 20]

\* rainfall (mm) the API reports for a station, year and month; only month 1
\* carries rows
ApiRainfall(st, yr) ==
  IF st = 1
  THEN (IF yr = 2023 THEN R(0) ELSE IF yr = 2024 THEN R(30) ELSE <<226, 5>>)
  ELSE (IF yr = 2023 THEN R(12) ELSE IF yr = 2024 THEN R(30) ELSE R(0))

\* whether the API holds any row of a station for a year: station 2 has no
\* record of 2024, and the request answers with no row for it
ApiHasRows(st, yr) == ~(st = 2 /\ yr = 2024)

\* TrendsD3Page: const [size, setSize] = useState({ w: 960, h: 480 })
InitialW == 960
SizeH == 480

(***************************************************************************)
(* Chart-data load effect: the rows one load produces                      *)
(***************************************************************************)
KeyOf(yr) ==
  IF yr = 2025 THEN "2025-forecast"
  ELSE IF yr = 2024 THEN "2024-actual" ELSE "2023-actual"

TypeOf(yr) == IF yr = 2025 THEN "forecast" ELSE "actual"

\* the year whose request produces a key
YearOfKey(key) == CHOOSE yr \in YEAR_OPTIONS : KeyOf(yr) = key

\* a row's month or station when the API's record lacks the field
\* (undefined after the spread ...d)
NoMonth == 0
NoStation == 0

\* records of the API that lack a field: the 2025 answer for station 2 also
\* holds one row without month and one without station
MalformedRows(stations, yr) ==
  IF 2 \in stations /\ yr = 2025
  THEN { [month |-> NoMonth, station |-> 2, year |-> yr, rainfall |-> R(5),
          type |-> TypeOf(yr), key |-> KeyOf(yr)],
         [month |-> 1, station |-> NoStation, year |-> yr, rainfall |-> R(7),
          type |-> TypeOf(yr), key |-> KeyOf(yr)] }
  ELSE {}

\* one request's rows after its .then(data => data.map(...))
MappedRows(stations, yr) ==
  { [month |-> 1, station |-> st, year |-> yr, rainfall |-> ApiRainfall(st, yr),
     type |-> TypeOf(yr), key |-> KeyOf(yr)] :
      st \in { a \in stations : ApiHasRows(a, yr) } }
    \cup MalformedRows(stations, yr)

\* results.flat()
FlatData(stations, years) ==
  UNION { MappedRows(stations, yr) : yr \in years \cap YEAR_OPTIONS }

\* Array.prototype.sort() of the distinct keys: string order, which is the
\* order of their years
RECURSIVE SortKeys(_)
SortKeys(keys) ==
  IF keys = {} THEN << >>
  ELSE LET k == CHOOSE a \in keys :
                  \A b \in keys : YearOfKey(a) <= YearOfKey(b)
       IN  <<k>> \o SortKeys(keys \ {k})

NewDomain(data) == SortKeys({ d.key : d \in data })

\* selectedStations.sort((a, b) => a - b)
RECURSIVE SortStations(_)
SortStations(sts) ==
  IF sts = {} THEN << >>
  ELSE LET s == CHOOSE a \in sts : \A b \in sts : a <= b
       IN  <<s>> \o SortStations(sts \ {s})

\* position of a value in a scale's domain, 0 when it is not a member
IndexOf(dom, v) ==
  IF \E i \in 1 .. Len(dom) : dom[i] = v
  THEN CHOOSE i \in 1 .. Len(dom) : dom[i] = v
  ELSE 0

(***************************************************************************)
(* d3.scaleBand and d3.scaleLinear as the page configures them             *)
(***************************************************************************)
\* rescale() of a band scale with n categories, range r and padding pad
\* (inner and outer), align 0.5, no rounding
BandLo(r) == IF RLt(r[2], r[1]) THEN r[2] ELSE r[1]
BandHi(r) == IF RLt(r[2], r[1]) THEN r[1] ELSE r[2]

\* step = (stop - start) / max(1, n - paddingInner + 2 * paddingOuter)
BandStep(n, r, pad) ==
  Reduced(QDiv(QSub(BandHi(r), BandLo(r)), RMax(R(1), QAdd(R(n), pad))))

\* bandwidth = step * (1 - paddingInner)
Bandwidth(n, r, pad) ==
  Reduced(QMul(QDiv(QSub(BandHi(r), BandLo(r)), RMax(R(1), QAdd(R(n), pad))),
               QSub(R(1), pad)))

\* start += (stop - start - step * (n - paddingInner)) * align
BandStart(n, r, pad) ==
  RAdd(BandLo(r),
       RMul(RSub(RSub(BandHi(r), BandLo(r)),
                 RMul(BandStep(n, r, pad), RSub(R(n), pad))),
            <<1, 2>>))

Band(n, r, pad) ==
  [start |-> BandStart(n, r, pad), step |-> BandStep(n, r, pad),
   bandwidth |-> Bandwidth(n, r, pad)]

\* scale(domain[i]); undefined for a value outside the domain (i = 0)
BandAt(band, i) ==
  IF i = 0 THEN Undef ELSE RAdd(band.start, RMul(band.step, R(i - 1)))

\* scaleLinear().domain(dom).range([height, 0]) applied to v
YAt(dom, v) ==
  RAdd(R(height),
       RMul(RDiv(RSub(v, dom[1]), RSub(dom[2], dom[1])), RSub(R(0), R(height))))

\* its invert
YInvert(dom, p) ==
  Reduced(QAdd(dom[1],
               QMul(QDiv(QSub(p, R(height)), QSub(R(0), R(height))),
                    Reduced(QSub(dom[2], dom[1])))))

(***************************************************************************)
(* d3.zoom transforms: [k, x, y]                                           *)
(***************************************************************************)
zoomIdentity == [k |-> R(1), x |-> R(0), y |-> R(0)]

ApplyX(t, p) == Reduced(QAdd(QMul(t.k, p), t.x))
InvertX(t, p) == QDiv(QSub(p, t.x), t.k)
InvertY(t, p) == QDiv(QSub(p, t.y), t.k)

(***************************************************************************)
(* State                                                                   *)
(***************************************************************************)
VARIABLES
  \* RainfallD3Page: React state
  selectedYears, selectedStations, selectedCrop,
  chartData, barDomain, cropLimits, error,
  \* RainfallD3Page: requests in flight (Promise.all of one load; one crop
  \* request), oldest first; `latest` marks the load of the newest effect run
  loads, cropLoads,
  \* RainfallD3Page: the scene the render effect built and the zoom handler
  \* updates: ranges of x0/x1/x2, domain of y, domain of the value scale the
  \* geometry was last positioned with (y, or newY of the last zoom event)
  x0r, x1r, x2r, yDom, newYDom,
  \* RainfallD3Page: the records that have a rect element in the svg
  rects,
  \* RainfallD3Page: clientWidth and clientHeight of the svg element, and the
  \* width and height the render effect computed from them at its last run
  clientSize, plotSize,
  \* RainfallD3Page: __zoom of the svg and of the overlay rect, and the
  \* transition handleResetZoom schedules on the svg
  svgZoom, rectZoom, trans,
  \* TrendsD3Page: React state
  allStates, selectedStates, selectedMonth, selectedYear, tSelectedCrop,
  forecastRows, actualRows, tCropLimits, loading, errors,
  \* TrendsD3Page: runs of the load effect and of the crop-limits effect
  \* that wait for their fetch, each with its `ignore` flag
  loadRuns, cropRuns,
  \* RainfallD3Page: the operation that wrote the scene last (a run of the
  \* render effect, or a call of the zoom handler)
  last,
  \* TrendsD3Page: the operation that produced the state
  tLast,
  \* TrendsD3Page: what the hover handlers set: the tooltip's opacity, the
  \* focus layer's display, the series the lines are dimmed around, the
  \* candidates of the last mousemove and the focused one with the focus
  \* dot's position, and whether the last handler call threw
  hover,
  \* TrendsD3Page: the React state `size`, the width of the observed wrapper
  \* and whether a ResizeObserver notification is waiting to be delivered
  size, wrapW, roPending,
  \* MapsD3Page: React state
  selectedDate, selectedState, avgTemperature, stationInfo, suitableCrops,
  mapLoading, apiError,
  \* MapsD3Page: the suitability requests in flight, oldest first, and the
  \* outcome of the request of the newest run of the fetch effect once it
  \* has arrived (kept to compare the page with)
  requests, answered,
  \* MapsD3Page: the operation that produced the state
  mLast

mapsVars == <<selectedDate, selectedState, avgTemperature, stationInfo,
              suitableCrops, mapLoading, apiError, requests, answered, mLast>>
frameVars == <<size, wrapW, roPending>>
rainVars == <<selectedYears, selectedStations, selectedCrop, chartData,
              barDomain, cropLimits, error, loads, cropLoads, clientSize>>
sceneVars == <<x0r, x1r, x2r, yDom, newYDom, rects, plotSize>>
zoomVars == <<svgZoom, rectZoom, trans>>
trendsVars == <<allStates, selectedStates, selectedMonth, selectedYear,
                tSelectedCrop, forecastRows, actualRows, tCropLimits, loading,
                errors, loadRuns, cropRuns, tLast, hover, frameVars>>
vars == <<rainVars, sceneVars, zoomVars, trendsVars, last, mapsVars>>

NoRange == <<Undef, Undef>>
NoOverlay == [y |-> Undef, h |-> Undef, lineMax |-> Undef, lineMin |-> Undef]

(***************************************************************************)
(* Render effect: scales and geometry of a fresh draw                      *)
(***************************************************************************)
\* d3.max(chartData, d => d.rainfall) || 100
DataMax(data) ==
  IF data = {} THEN R(100)
  ELSE LET m == (CHOOSE a \in data :
                   \A b \in data : RLe(b.rainfall, a.rainfall)).rainfall
       IN  IF m = R(0) THEN R(100) ELSE m

\* Math.max(dataMax, cropMax) * 1.1
PaddedMax(data, limits) ==
  RMul(RMax(DataMax(data), IF limits = NoLimits THEN R(0) ELSE limits.max),
       <<11, 10>>)

\* chartData.length && barDomain.length && selectedStations.length
DrawsBars(data, dom, stations) == data # {} /\ dom # << >> /\ stations # {}

\* the three band scales over their current ranges
X0(r0) == Band(NumMonths, r0, Pad0)
X1(r1, stations) == Band(Cardinality(stations), r1, Pad1)
X2(r2, dom) == Band(Len(dom), r2, Pad2)

\* .range([0, x0.bandwidth()]) and .range([0, x1.bandwidth()])
X1Range(r0) == <<R(0), Bandwidth(NumMonths, r0, Pad0)>>
\* faulty variant: x2 is given x1's range (the month band) instead of x1's bandwidth
X2RangeOfParent(r1, stations) == r1

X2Range(r1, stations) == <<R(0), Bandwidth(Cardinality(stations), r1, Pad1)>>

\* attr("y"), attr("height"), attr("opacity") of a rect at the initial draw
BarY(ydom, d) ==
  IF d.rainfall = R(0) THEN RSub(YAt(ydom, R(0)), R(1)) ELSE YAt(ydom, d.rainfall)

BarHeight(ydom, d) ==
  IF d.rainfall = R(0) THEN R(1) ELSE RSub(R(height), YAt(ydom, d.rainfall))

\* faulty variant: the forecast test comes first
BarOpacityForecastFirst(d) ==
  IF d.type = "forecast" THEN <<7, 10>>
  ELSE IF d.rainfall = R(0) THEN <<2, 5>> ELSE R(1)

BarOpacity(d) ==
  IF d.rainfall = R(0) THEN <<2, 5>>
  ELSE IF d.type = "forecast" THEN <<7, 10>> ELSE R(1)

\* one rect per datum of the nested month -> station join: the translate of
\* its month group, x0(MONTH_MAP.get(month)), and of its station group,
\* x1(station), then its own x = x2(key) and width = x2.bandwidth()
DrawBars(data, dom, stations, r0, r1, r2, ydom) ==
  LET b0 == X0(r0)
      b1 == X1(r1, stations)
      b2 == X2(r2, dom)
      sts == SortStations(stations)
  IN  { [d |-> d,
         gx |-> BandAt(b0, IF d.month \in MONTHS THEN d.month ELSE 0),
         sx |-> BandAt(b1, IndexOf(sts, d.station)),
         x |-> BandAt(b2, IndexOf(dom, d.key)),
         y |-> BarY(ydom, d),
         w |-> b2.bandwidth,
         h |-> BarHeight(ydom, d),
         opacity |-> BarOpacity(d)] : d \in data }

\* crop rect and its two dashed lines at the initial draw
DrawOverlay(limits, ydom) ==
  IF limits = NoLimits THEN NoOverlay
  ELSE [y |-> YAt(ydom, limits.max),
        h |-> RSub(YAt(ydom, limits.min), YAt(ydom, limits.max)),
        lineMax |-> YAt(ydom, limits.max),
        lineMin |-> YAt(ydom, limits.min)]

\* faulty variant: the elements of the previous scene stay in the svg
KeepScene(old) == old

\* width and height of the plot: the svg's client size less the margins
\* { top: 20, right: 20, bottom: 80, left: 110 }
PlotSize(cs) == <<cs[1] - 110 - 20, cs[2] - 20 - 80>>

\* the svg's client size in which the plot is width x height
LaidOut == <<width + 130, height + 100>>

\* svg.selectAll("*").remove(): no element of the previous scene is left
ClearScene(old) == {}

\* the records bound to rect elements after a run of the render effect:
\* the svg is cleared, then one rect is appended per record when the guard
\* of the bars holds
Rects(old, data, dom, stations) ==
  ClearScene(old) \cup (IF DrawsBars(data, dom, stations) THEN data ELSE {})

\* the same for the render effect of temperaturechartKJ/src/App.js: when
\* its guard fails it clears the svg and returns; otherwise it clears the
\* svg and appends one rect per record
KJRects(old, data, dom, stations) ==
  IF ~DrawsBars(data, dom, stations) THEN ClearScene(old)
  ELSE ClearScene(old) \cup data

\* the render effect, run on (data, dom, limits, stations): the scene is
\* cleared and rebuilt at the base scales; the new overlay rect starts with
\* no __zoom, the svg keeps its own; a running reset transition keeps the
\* zoom behaviour, and with it the scene, it was started on
RenderEffect(data, dom, limits, stations) ==
  LET r0 == <<R(0), R(PlotSize(clientSize)[1])>>
      yd == <<R(0), PaddedMax(data, limits)>>
      draws == DrawsBars(data, dom, stations)
      r1 == IF draws THEN X1Range(r0) ELSE NoRange
      r2 == IF draws THEN X2Range(r1, stations) ELSE NoRange
  IN  /\ x0r' = r0
      /\ yDom' = yd
      /\ newYDom' = yd
      /\ x1r' = r1
      /\ x2r' = r2
      /\ rects' = Rects(rects, data, dom, stations)
      /\ plotSize' = PlotSize(clientSize)
      /\ rectZoom' = zoomIdentity
      /\ svgZoom' = svgZoom
      /\ trans' = IF trans = "idle" THEN "idle" ELSE "detached"

(***************************************************************************)
(* Zoom handler: on("zoom", event => ...) with t = event.transform         *)
(***************************************************************************)
\* attr("y") and attr("height") of a rect in the zoom handler
ZoomBarY(nyd, d) ==
  IF d.rainfall = R(0) THEN RSub(YAt(nyd, R(0)), R(1)) ELSE YAt(nyd, d.rainfall)

\* faulty variant: the handler has no case for rainfall 0
ZoomBarHeightNoFloor(nyd, d) ==
  RMax(R(0), RSub(R(height), YAt(nyd, d.rainfall)))

ZoomBarHeight(nyd, d) ==
  RMax(R(0), IF d.rainfall = R(0) THEN R(1)
             ELSE RSub(R(height), YAt(nyd, d.rainfall)))

\* faulty variant: the value scale of the previous event is rescaled
RescaleYOfCurrent(t, dom) ==
  <<YInvert(newYDom, InvertY(t, R(height))), YInvert(newYDom, InvertY(t, R(0)))>>

\* t.rescaleY(y): the domain of y.copy().domain(range.map(invertY).map(invert))
RescaleY(t, dom) ==
  <<YInvert(dom, InvertY(t, R(height))), YInvert(dom, InvertY(t, R(0)))>>

\* faulty variant: the transform is applied to x0's current range, not to [0, width]
ZoomX0RangeOfCurrent(t) == <<ApplyX(t, x0r[1]), ApplyX(t, x0r[2])>>

ZoomX0Range(t) == <<ApplyX(t, R(0)), ApplyX(t, R(width))>>

\* faulty variant: the overlay is positioned with the base scale y
ZoomOverlayAtBase(limits, nyd) ==
  IF limits = NoLimits THEN NoOverlay
  ELSE [y |-> YAt(yDom, limits.max),
        h |-> RMax(R(0), RSub(YAt(yDom, limits.min), YAt(yDom, limits.max))),
        lineMax |-> YAt(yDom, limits.max),
        lineMin |-> YAt(yDom, limits.min)]

ZoomOverlay(limits, nyd) ==
  IF limits = NoLimits THEN NoOverlay
  ELSE [y |-> YAt(nyd, limits.max),
        h |-> RMax(R(0), RSub(YAt(nyd, limits.min), YAt(nyd, limits.max))),
        lineMax |-> YAt(nyd, limits.max),
        lineMin |-> YAt(nyd, limits.min)]

\* the transforms of the month and station groups and x, width, y, height
\* of every rect are set again; opacity and fill are not touched
ZoomBars(data, dom, stations, r0, r1, r2, nyd) ==
  LET b0 == X0(r0)
      b1 == X1(r1, stations)
      b2 == X2(r2, dom)
      sts == SortStations(stations)
  IN  { [d |-> d,
         gx |-> BandAt(b0, IF d.month \in MONTHS THEN d.month ELSE 0),
         sx |-> BandAt(b1, IndexOf(sts, d.station)),
         x |-> BandAt(b2, IndexOf(dom, d.key)),
         y |-> ZoomBarY(nyd, d),
         w |-> b2.bandwidth,
         h |-> ZoomBarHeight(nyd, d),
         opacity |-> BarOpacity(d)] : d \in data }

ZoomHandler(t) ==
  LET nyd == RescaleY(t, yDom)
      r0 == ZoomX0Range(t)
      draws == DrawsBars(chartData, barDomain, selectedStations)
      r1 == IF draws THEN X1Range(r0) ELSE x1r
      r2 == IF draws THEN X2Range(r1, selectedStations) ELSE x2r
  IN  /\ newYDom' = nyd
      /\ yDom' = yDom
      /\ x0r' = r0
      /\ x1r' = r1
      /\ x2r' = r2
      /\ rects' = rects
      /\ plotSize' = plotSize

(***************************************************************************)
(* The scene: the rects and the overlay as their attributes were last set  *)
(***************************************************************************)
\* which code set the attributes of the rects and of the overlay last: the
\* zoom handler, or else the render effect
ZoomedBy(l) == l \in {"zoom", "resetEnd"}

Zoomed == ZoomedBy(last)

\* whether the scene holds rects (the guard of the draw and of the handler)
BarsDrawn == DrawsBars(chartData, barDomain, selectedStations)

\* the .bar-rect elements with their attributes, as the code that ran last
\* (l) set them from the data and the scales
BarsOf(l, data, dom, stations, r0, r1, r2, nyd) ==
  IF ~DrawsBars(data, dom, stations) THEN {}
  ELSE IF ZoomedBy(l) THEN ZoomBars(data, dom, stations, r0, r1, r2, nyd)
  ELSE DrawBars(data, dom, stations, r0, r1, r2, nyd)

\* the crop rect and its lines with their attributes
OverlayOf(l, limits, nyd) ==
  IF ZoomedBy(l) THEN ZoomOverlay(limits, nyd) ELSE DrawOverlay(limits, nyd)

bars ==
  BarsOf(last, chartData, barDomain, selectedStations, x0r, x1r, x2r, newYDom)

overlay == OverlayOf(last, cropLimits, newYDom)

(***************************************************************************)
(* d3.zoom: scaleExtent([1, 5]), extent and translateExtent                *)
(* [[0, 0], [width, height]]                                               *)
(***************************************************************************)
\* faulty variant: only the lower end of scaleExtent is enforced
ClampScaleMinOnly(req) == IF RLt(req, R(MinK)) THEN R(MinK) ELSE req

\* Math.max(scaleExtent[0], Math.min(scaleExtent[1], k))
ClampScale(req) ==
  IF RLt(req, R(MinK)) THEN R(MinK)
  ELSE IF RLt(R(MaxK), req) THEN R(MaxK) ELSE req

\* translate(scale(t, k), p, t.invert(p)): the point under the pointer stays
ScaleAbout(t, k, px, py) ==
  [k |-> k,
   x |-> Reduced(QSub(px, QMul(InvertX(t, px), k))),
   y |-> Reduced(QSub(py, QMul(InvertY(t, py), k)))]

\* one axis of defaultConstrain: the shift, in untransformed units
ConstrainShift(d0, d1) ==
  IF RLt(d0, d1) THEN QMul(QAdd(d0, d1), <<1, 2>>)
  ELSE IF RLt(d0, R(0)) THEN d0
  ELSE RMax(R(0), d1)

\* faulty variant: no translateExtent
ConstrainNone(t) == [k |-> t.k, x |-> Reduced(t.x), y |-> Reduced(t.y)]

\* defaultConstrain(transform, extent, translateExtent)
Constrain(t) ==
  LET dx0 == QSub(InvertX(t, R(0)), R(0))
      dx1 == QSub(InvertX(t, R(width)), R(width))
      dy0 == QSub(InvertY(t, R(0)), R(0))
      dy1 == QSub(InvertY(t, R(height)), R(height))
  IN  [k |-> t.k,
       x |-> Reduced(QAdd(t.x, QMul(t.k, ConstrainShift(dx0, dx1)))),
       y |-> Reduced(QAdd(t.y, QMul(t.k, ConstrainShift(dy0, dy1))))]

\* the transform a wheel event asking for scale req at pointer (px, py) gives
Wheeled(t, req, px, py) == Constrain(ScaleAbout(t, ClampScale(req), px, py))

\* the transform a drag by (dx, dy) gives
Dragged(t, dx, dy) ==
  Constrain([k |-> t.k, x |-> QAdd(t.x, dx), y |-> QAdd(t.y, dy)])

\* inputs: scales a wheel event may ask for (k * 2^delta), pointer positions
\* and drag distances; gestures are taken whose transform is on the pixel grid
ReqScales == {<<1, 2>>, R(2), R(10)}
PointersX == { R(i) : i \in 0 .. width }
PointersY == { R(i) : i \in 0 .. height }
Drags == {<<R(0 - 2), R(0)>>, <<R(2), R(0)>>, <<R(0), R(0 - 2)>>, <<R(0), R(2)>>}
Elements == {"svg", "rect"}

OnGrid(t) == t.k[2] = 1 /\ t.x[2] = 1 /\ t.y[2] = 1

ZoomOf(el) == IF el = "svg" THEN svgZoom ELSE rectZoom

\* g.zoom(): the element's __zoom is set and the handler runs.  A gesture on
\* the svg interrupts the reset transition, which runs on the svg
Gesture(el, t) ==
  /\ OnGrid(t)
  /\ svgZoom' = IF el = "svg" THEN t ELSE svgZoom
  /\ rectZoom' = IF el = "rect" THEN t ELSE rectZoom
  /\ trans' = IF el = "svg" THEN "idle" ELSE trans
  /\ ZoomHandler(t)
  /\ last' = "zoom"
  /\ UNCHANGED <<rainVars, trendsVars, mapsVars>>

\* wheel.zoom: nothing happens when the clamped scale is the current one
Wheel(el, req, px, py) ==
  /\ ClampScale(req) # ZoomOf(el).k
  /\ Gesture(el, Wheeled(ZoomOf(el), req, px, py))

\* mousedown.zoom ... mousemove
Drag(el, dx, dy) == Gesture(el, Dragged(ZoomOf(el), dx, dy))

\* handleResetZoom: a transition on the svg towards zoomIdentity
ResetStart ==
  /\ trans' = "live"
  /\ UNCHANGED <<rainVars, sceneVars, svgZoom, rectZoom, last, trendsVars, mapsVars>>

\* the transition's last frame (t === 1): g.zoom(null, zoomIdentity) on the
\* svg, through the zoom behaviour the transition was started with.  The
\* frames before it, which d3.interpolateZoom computes, are not modelled
ResetEnd ==
  /\ trans # "idle"
  /\ trans' = "idle"
  /\ svgZoom' = zoomIdentity
  /\ rectZoom' = rectZoom
  /\ IF trans = "live"
     THEN ZoomHandler(zoomIdentity) /\ last' = "resetEnd"
     ELSE UNCHANGED <<sceneVars, last>>
  /\ UNCHANGED <<rainVars, trendsVars, mapsVars>>

(***************************************************************************)
(* RainfallD3Page: selection handlers and load effects                     *)
(***************************************************************************)
LoadFailed == "Could not load chart data."
NoError == "null"

Remove(seq, i) == SubSeq(seq, 1, i - 1) \o SubSeq(seq, i + 1, Len(seq))

\* the chart-data effect, run for a new selection: an empty selection clears
\* chartData and barDomain at once, any other starts one load (Promise.all)
StartLoad(stations, years) ==
  LET older == [i \in 1 .. Len(loads) |-> [loads[i] EXCEPT !.latest = FALSE]]
  IN  IF stations = {} \/ years = {}
      THEN /\ chartData' = {}
           /\ barDomain' = << >>
           /\ loads' = older
      ELSE /\ Len(loads) < MaxLoads
           /\ loads' = Append(older, [stations |-> stations, years |-> years,
                                      latest |-> TRUE])
           /\ UNCHANGED <<chartData, barDomain>>

\* handleStationChange: a station is ticked or unticked.  selectedStations is
\* a dependency of the render effect, which redraws
HandleStationChange(st) ==
  LET sel == IF st \in selectedStations THEN selectedStations \ {st}
             ELSE selectedStations \cup {st}
  IN  /\ selectedStations' = sel
      /\ StartLoad(sel, selectedYears)
      /\ RenderEffect(chartData', barDomain', cropLimits, sel)
      /\ last' = "stations"
      /\ UNCHANGED <<selectedYears, selectedCrop, cropLimits, error, cropLoads,
                     clientSize,
                     trendsVars, mapsVars>>

\* handleYearChange: a year is ticked or unticked.  The render effect runs
\* again only when the load effect replaces chartData (empty selection)
HandleYearChange(yr) ==
  LET sel == IF yr \in selectedYears THEN selectedYears \ {yr}
             ELSE selectedYears \cup {yr}
  IN  /\ selectedYears' = sel
      /\ StartLoad(selectedStations, sel)
      /\ IF selectedStations = {} \/ sel = {}
         THEN /\ RenderEffect(chartData', barDomain', cropLimits, selectedStations)
              /\ last' = "years"
         ELSE UNCHANGED <<sceneVars, zoomVars, last>>
      /\ UNCHANGED <<selectedStations, selectedCrop, cropLimits, error,
                     cropLoads, clientSize,
                     trendsVars, mapsVars>>

\* what the Promise.all(...).then callback writes
LoadedData(ld) == FlatData(ld.stations, ld.years)

\* Promise.all(...).then: the i-th load in flight resolves
LoadResolved(i) ==
  /\ i \in 1 .. Len(loads)
  /\ chartData' = LoadedData(loads[i])
  /\ barDomain' = NewDomain(chartData')
  /\ error' = NoError
  /\ loads' = Remove(loads, i)
  /\ RenderEffect(chartData', barDomain', cropLimits, selectedStations)
  /\ last' = IF loads[i].latest THEN "loadResolved" ELSE "staleLoadResolved"
  /\ UNCHANGED <<selectedYears, selectedStations, selectedCrop, cropLimits,
                 cropLoads, clientSize,
                 trendsVars, mapsVars>>

\* faulty variant: the rows of the requests that succeeded are kept
RowsOfTheOthers(ld) ==
  FlatData(ld.stations, ld.years \ {CHOOSE yr \in ld.years : TRUE})

\* setChartData([]) of the .catch callback: whatever the other requests of
\* the load returned is dropped
RejectedData(ld) == {}

\* Promise.all(...).catch: one request of the i-th load in flight failed
LoadRejected(i) ==
  /\ i \in 1 .. Len(loads)
  /\ error' = LoadFailed
  /\ chartData' = RejectedData(loads[i])
  /\ barDomain' = << >>
  /\ loads' = Remove(loads, i)
  /\ RenderEffect(chartData', barDomain', cropLimits, selectedStations)
  /\ last' = IF loads[i].latest THEN "loadRejected" ELSE "staleLoadRejected"
  /\ UNCHANGED <<selectedYears, selectedStations, selectedCrop, cropLimits,
                 cropLoads, clientSize,
                 trendsVars, mapsVars>>

\* a setCropLimits call: the render effect runs again unless React sees the
\* same value (null after null)
SetCropLimits(limits) ==
  /\ cropLimits' = limits
  /\ IF limits = NoLimits /\ cropLimits = NoLimits
     THEN UNCHANGED <<sceneVars, zoomVars, last>>
     ELSE /\ RenderEffect(chartData, barDomain, limits, selectedStations)
          /\ last' = "cropLimits"

\* handleCropChange and the crop-limits effect
HandleCropChange(crop) ==
  /\ crop # selectedCrop
  /\ selectedCrop' = crop
  /\ IF crop = NoCrop
     THEN /\ SetCropLimits(NoLimits)
          /\ cropLoads' = cropLoads
     ELSE /\ Len(cropLoads) < MaxCropLoads
          /\ cropLoads' = Append(cropLoads, crop)
          /\ UNCHANGED <<cropLimits, sceneVars, zoomVars, last>>
  /\ UNCHANGED <<selectedYears, selectedStations, chartData, barDomain, error,
                 loads, clientSize,
                 trendsVars, mapsVars>>

\* the crop-limits request resolves (.then(setCropLimits)) or fails
CropResolved(i, ok) ==
  /\ i \in 1 .. Len(cropLoads)
  /\ SetCropLimits(IF ok THEN LimitsOf(cropLoads[i]) ELSE NoLimits)
  /\ cropLoads' = Remove(cropLoads, i)
  /\ UNCHANGED <<selectedYears, selectedStations, selectedCrop, chartData,
                 barDomain, error, loads, clientSize,
                 trendsVars, mapsVars>>

(***************************************************************************)
(* TrendsD3Page: load effects guarded by `ignore`                          *)
(***************************************************************************)
\* how much warmer a state is than NSW in the API's rows
StateOffset(st) == IF st = "NSW" THEN 0 ELSE 3

\* /model/forecast and /temps answers
ForecastOf(run) ==
  { [state |-> st, day |-> d, month |-> run.month, year |-> run.year,
     yhat |-> 20 + d + run.month + StateOffset(st)] :
      st \in run.states, d \in TrendDays }

\* (actual || []).map(r => ({state, day, temp}))
ActualOf(run) ==
  { [state |-> st, day |-> d,
     temp |-> 10 + d + run.month + (run.year - 2023) + StateOffset(st)] :
      st \in run.states, d \in TrendDays }

\* the cleanup of the previous effect run: () => { ignore = true; }
Cleanup(runs) == [i \in 1 .. Len(runs) |-> [runs[i] EXCEPT !.ignore = TRUE]]

\* faulty variant: the `ignore` flag is not consulted
AppliesAlways(run) == TRUE

\* if (!ignore) ... after an await
Applies(run) == ~run.ignore

\* the forecast/actuals effect, run for (states, month, year), up to its await
TrendStartLoad(states, month, year) ==
  IF states = {}
  THEN /\ forecastRows' = {}
       /\ actualRows' = {}
       /\ loadRuns' = Cleanup(loadRuns)
       /\ UNCHANGED <<loading, errors>>
  ELSE /\ Len(loadRuns) < MaxRuns
       /\ loading' = TRUE
       /\ errors' = ""
       /\ forecastRows' = IF year = 2025 THEN forecastRows ELSE {}
       /\ actualRows' = actualRows
       /\ loadRuns' = Append(Cleanup(loadRuns),
                             [states |-> states, month |-> month, year |-> year,
                              ignore |-> FALSE])

\* no series focused, no focus point
NoFocus == ""
NoPoint == [state |-> NoFocus, day |-> 0, temp |-> 0, dy |-> Undef]
\* the page as first drawn: tooltip at opacity 0, focus layer not displayed,
\* every line at its own opacity
NoHover == [tooltip |-> 0, focus |-> "none", dim |-> NoFocus, nearest |-> {},
            focused |-> NoPoint, cx |-> Undef, cy |-> Undef,
            mx |-> Undef, my |-> Undef, threw |-> FALSE]

\* what an operation other than a mousemove leaves of the hover state: the
\* attributes the handlers set stay; the candidates, the pointer and the
\* outcome of the last mousemove call describe that call only
Settled(hv) ==
  [NoHover EXCEPT !.tooltip = hv.tooltip, !.focus = hv.focus, !.dim = hv.dim,
                  !.cx = hv.cx, !.cy = hv.cy]

\* a run of the draw effect removes the svg's children and appends the paths
\* and a focus layer with display none and a new line and dot; the tooltip
\* is outside the svg and keeps its style.  Without a run nothing changes
HoverAfter(redrawn) ==
  hover' = IF redrawn THEN [NoHover EXCEPT !.tooltip = hover.tooltip]
           ELSE Settled(hover)

\* the /states answer arrives: setAllStates(clean); setSelectedStates([])
StatesLoaded ==
  /\ allStates = {}
  /\ allStates' = ApiStates
  /\ selectedStates' = {}
  /\ TrendStartLoad({}, selectedMonth, selectedYear)
  /\ tLast' = "statesLoaded"
  /\ HoverAfter(TRUE)
  /\ UNCHANGED frameVars
  /\ UNCHANGED <<selectedMonth, selectedYear, tSelectedCrop, tCropLimits,
                 cropRuns, rainVars, sceneVars, zoomVars, last, mapsVars>>

\* the States select: a state is ticked or unticked
TrendStateChange(st) ==
  LET sel == IF st \in selectedStates THEN selectedStates \ {st}
             ELSE selectedStates \cup {st}
  IN  /\ st \in allStates
      /\ selectedStates' = sel
      /\ TrendStartLoad(sel, selectedMonth, selectedYear)
      /\ tLast' = "trendStates"
      /\ HoverAfter(sel = {} \/ selectedYear # 2025)
      /\ UNCHANGED frameVars
      /\ UNCHANGED <<allStates, selectedMonth, selectedYear, tSelectedCrop,
                     tCropLimits, cropRuns, rainVars, sceneVars, zoomVars, last, mapsVars>>

\* the Month select
TrendMonthChange(m) ==
  /\ m # selectedMonth
  /\ selectedMonth' = m
  /\ TrendStartLoad(selectedStates, m, selectedYear)
  /\ tLast' = "trendMonth"
  /\ HoverAfter(TRUE)
  /\ UNCHANGED frameVars
  /\ UNCHANGED <<allStates, selectedStates, selectedYear, tSelectedCrop,
                 tCropLimits, cropRuns, rainVars, sceneVars, zoomVars, last, mapsVars>>

\* the Year select
TrendYearChange(yr) ==
  /\ yr # selectedYear
  /\ selectedYear' = yr
  /\ TrendStartLoad(selectedStates, selectedMonth, yr)
  /\ tLast' = "trendYear"
  /\ HoverAfter(TRUE)
  /\ UNCHANGED frameVars
  /\ UNCHANGED <<allStates, selectedStates, selectedMonth, tSelectedCrop,
                 tCropLimits, cropRuns, rainVars, sceneVars, zoomVars, last, mapsVars>>

\* faulty variant: the actual rows stay when a forecast arrives
ActualKept(rows) == rows

\* setActualRows([]) after the forecast of 2025 arrived: no actuals for 2025
ActualAfterForecast(rows) == {}

\* the awaited fetch of the i-th waiting run resolves
TrendLoadResolved(i) ==
  /\ i \in 1 .. Len(loadRuns)
  /\ LET run == loadRuns[i]
     IN  /\ IF Applies(run)
            THEN /\ forecastRows' = IF run.year = 2025 THEN ForecastOf(run)
                                    ELSE forecastRows
                 /\ actualRows' = IF run.year = 2025
                                  THEN ActualAfterForecast(actualRows)
                                  ELSE ActualOf(run)
                 /\ loading' = FALSE
            ELSE UNCHANGED <<forecastRows, actualRows, loading>>
         /\ tLast' = IF run.ignore THEN "staleTrendResolved" ELSE "trendResolved"
         /\ HoverAfter(Applies(run))
         /\ UNCHANGED frameVars
  /\ loadRuns' = Remove(loadRuns, i)
  /\ UNCHANGED <<allStates, selectedStates, selectedMonth, selectedYear,
                 tSelectedCrop, tCropLimits, errors, cropRuns, rainVars,
                 sceneVars, zoomVars, last, mapsVars>>

\* the awaited fetch of the i-th waiting run throws
TrendLoadRejected(i) ==
  /\ i \in 1 .. Len(loadRuns)
  /\ LET run == loadRuns[i]
     IN  /\ IF Applies(run)
            THEN /\ loading' = FALSE
                 /\ errors' = "API error"
                 /\ forecastRows' = {}
                 /\ actualRows' = {}
            ELSE UNCHANGED <<forecastRows, actualRows, loading, errors>>
         /\ tLast' = IF run.ignore THEN "staleTrendRejected" ELSE "trendRejected"
         /\ HoverAfter(Applies(run))
         /\ UNCHANGED frameVars
  /\ loadRuns' = Remove(loadRuns, i)
  /\ UNCHANGED <<allStates, selectedStates, selectedMonth, selectedYear,
                 tSelectedCrop, tCropLimits, cropRuns, rainVars, sceneVars,
                 zoomVars, last, mapsVars>>

\* the Crop select and the crop-limits effect up to its await
TrendCropChange(crop) ==
  /\ crop # tSelectedCrop
  /\ tSelectedCrop' = crop
  /\ IF crop = NoCrop
     THEN /\ tCropLimits' = NoTrendLimits
          /\ cropRuns' = Cleanup(cropRuns)
     ELSE /\ Len(cropRuns) < MaxCropRuns
          /\ cropRuns' = Append(Cleanup(cropRuns), [crop |-> crop, ignore |-> FALSE])
          /\ tCropLimits' = tCropLimits
  /\ tLast' = "trendCrop"
  /\ HoverAfter(TRUE)
  /\ UNCHANGED frameVars
  /\ UNCHANGED <<allStates, selectedStates, selectedMonth, selectedYear,
                 forecastRows, actualRows, loading, errors, loadRuns,
                 rainVars, sceneVars, zoomVars, last, mapsVars>>

\* the /crop/limits answer of the i-th waiting run arrives, or its fetch throws
TrendCropResolved(i, ok) ==
  /\ i \in 1 .. Len(cropRuns)
  /\ LET run == cropRuns[i]
     IN  /\ IF Applies(run)
            THEN /\ tCropLimits' = IF ok THEN TrendLimitsOf(run.crop)
                                   ELSE NoTrendLimits
                 /\ errors' = IF ok THEN errors ELSE "Could not load crop limits"
            ELSE UNCHANGED <<tCropLimits, errors>>
         /\ tLast' = IF run.ignore THEN "staleTrendCrop" ELSE "trendCropDone"
         /\ HoverAfter(Applies(run))
         /\ UNCHANGED frameVars
  /\ cropRuns' = Remove(cropRuns, i)
  /\ UNCHANGED <<allStates, selectedStates, selectedMonth, selectedYear,
                 tSelectedCrop, forecastRows, actualRows, loading, loadRuns,
                 rainVars, sceneVars, zoomVars, last, mapsVars>>

(***************************************************************************)
(* MapsD3Page: date and state selection, the suitability request           *)
(***************************************************************************)
YEARS == {2023, 2024, 2025}

\* the states, years, months and slider positions the user picks from
ValidStates == {"NSW", "VIC"}
DateYears == {2023, 2024}
DateMonths == {1, 2, 4}
SliderDays == {1, 31}

\* at most this many suitability requests wait for their response
MaxRequests == 2

NoState == "null"
\* avgTemperature === null, as a value no response carries
NoTemp == -274
NoStationInfo == [id |-> "null", name |-> "null"]
NoApiError == "null"
NoAnswer == [outcome |-> "none"]

\* new Date(year, month, 0).getDate()
getDaysInMonth(year, month) ==
  IF month = 2
  THEN IF year % 4 = 0 /\ (year % 100 # 0 \/ year % 400 = 0) THEN 29 ELSE 28
  ELSE IF month \in {4, 6, 9, 11} THEN 30 ELSE 31

maxDaysInMonth(date) == getDaysInMonth(date.year, date.month)

\* what the server answers: rows, no row, or an HTTP error status
Outcomes == {"rows", "empty", "500"}

\* the rows of POST /model/suitability for a request
TempOf(req) == 10 + req.month + (req.day % 10) + StateOffset(req.state)
StationOf(req) == [id |-> req.state, name |-> req.state]
SuitableOf(req) == IF req.month = 1 THEN {"wheat"} ELSE {"wheat", "canola"}

\* HUMAN_ERRORS[error.status], or the generic message
FriendlyMessage(outcome) ==
  IF outcome = "500" THEN "Server error. Please try again later."
  ELSE "Sorry, we couldn't load the data. Please try again."

\* the fetch effect, run for a (state, date): nothing is requested without a
\* state; otherwise loading and apiError are set and the request is sent
SendRequest(reqs, st, date) ==
  IF st = NoState THEN reqs
  ELSE Append([i \in 1 .. Len(reqs) |-> [reqs[i] EXCEPT !.latest = FALSE]],
              [year |-> date.year, month |-> date.month, day |-> date.day,
               state |-> st, latest |-> TRUE])

\* setSelectedDate from a handler, then the effects of the commit in the
\* order they are declared: the day-adjusting effect queues its update, the
\* fetch effect sends the request of the render's date, and the queued
\* update renders again and sends the request of the adjusted date
SetSelectedDate(date) ==
  LET adjusted == [date EXCEPT !.day = maxDaysInMonth(date)]
      first == SendRequest(requests, selectedState, date)
  IN  /\ selectedDate' = IF date.day > maxDaysInMonth(date) THEN adjusted
                         ELSE date
      /\ requests' = IF date.day > maxDaysInMonth(date)
                     THEN SendRequest(first, selectedState, adjusted)
                     ELSE first
      /\ Len(requests') <= MaxRequests
      /\ IF selectedState = NoState
         THEN /\ avgTemperature' = NoTemp
              /\ suitableCrops' = {}
              /\ stationInfo' = NoStationInfo
              /\ UNCHANGED <<mapLoading, apiError, answered>>
         ELSE /\ mapLoading' = TRUE
              /\ apiError' = NoApiError
              /\ answered' = NoAnswer
              /\ UNCHANGED <<avgTemperature, suitableCrops, stationInfo>>
      /\ UNCHANGED <<selectedState, rainVars, sceneVars, zoomVars, trendsVars,
                     last>>

\* handleDateChange(type, value) of the year and month selects
HandleDateChange(type, value) ==
  /\ selectedDate[type] # value
  /\ SetSelectedDate([selectedDate EXCEPT ![type] = value])
  /\ mLast' = type

\* handleDaySliderChange: the slider runs from 1 to maxDaysInMonth
HandleDaySliderChange(day) ==
  /\ day \in 1 .. maxDaysInMonth(selectedDate)
  /\ day # selectedDate.day
  /\ SetSelectedDate([selectedDate EXCEPT !.day = day])
  /\ mLast' = "day"

\* the click handler of a state path: setSelectedState(abbr) and
\* setApiError(null); the fetch effect runs when the state changed
HandleStateClick(abbr) ==
  /\ selectedState' = abbr
  /\ apiError' = NoApiError
  /\ IF abbr = selectedState
     THEN UNCHANGED <<requests, mapLoading, answered>>
     ELSE /\ requests' = SendRequest(requests, abbr, selectedDate)
          /\ Len(requests') <= MaxRequests
          /\ mapLoading' = TRUE
          /\ answered' = NoAnswer
  /\ mLast' = "state"
  /\ UNCHANGED <<selectedDate, avgTemperature, suitableCrops, stationInfo,
                 rainVars, sceneVars, zoomVars, trendsVars, last>>

\* what the .then and .catch callbacks of a request leave on the page
ResultOf(req, outcome) ==
  IF outcome = "rows"
  THEN [avgTemperature |-> TempOf(req), suitableCrops |-> SuitableOf(req),
        stationInfo |-> StationOf(req)]
  ELSE [avgTemperature |-> NoTemp, suitableCrops |-> {},
        stationInfo |-> NoStationInfo]

\* the response of the i-th request in flight arrives: .then stores the
\* first row's temperature and station and the suitable crops; an empty
\* answer throws into .catch, which like an HTTP error stores the message
\* and clears the three; .finally ends loading
RequestSettled(i, outcome) ==
  /\ i \in 1 .. Len(requests)
  /\ avgTemperature' = ResultOf(requests[i], outcome).avgTemperature
  /\ suitableCrops' = ResultOf(requests[i], outcome).suitableCrops
  /\ stationInfo' = ResultOf(requests[i], outcome).stationInfo
  /\ apiError' = IF outcome = "rows" THEN apiError
                 ELSE FriendlyMessage(outcome)
  /\ mapLoading' = FALSE
  /\ answered' = IF requests[i].latest
                 THEN [outcome |-> outcome, req |-> requests[i]]
                 ELSE answered
  /\ requests' = Remove(requests, i)
  /\ mLast' = IF requests[i].latest THEN "settled" ELSE "staleSettled"
  /\ UNCHANGED <<selectedDate, selectedState, rainVars, sceneVars, zoomVars,
                 trendsVars, last>>

(***************************************************************************)
(* Specifications                                                          *)
(***************************************************************************)
Init ==
  /\ selectedYears = {2025, 2024, 2023}
  /\ selectedStations = {}
  /\ selectedCrop = NoCrop
  /\ chartData = {}
  /\ barDomain = << >>
  /\ cropLimits = NoLimits
  /\ error = NoError
  /\ loads = << >>
  /\ cropLoads = << >>
  /\ x0r = <<R(0), R(width)>>
  /\ rects = {}
  /\ clientSize = LaidOut
  /\ plotSize = PlotSize(LaidOut)
  /\ x1r = NoRange
  /\ x2r = NoRange
  /\ yDom = <<R(0), PaddedMax({}, NoLimits)>>
  /\ newYDom = <<R(0), PaddedMax({}, NoLimits)>>
  /\ svgZoom = zoomIdentity
  /\ rectZoom = zoomIdentity
  /\ trans = "idle"
  /\ allStates = {}
  /\ selectedStates = {}
  /\ selectedMonth = 1
  /\ selectedYear = 2024
  /\ tSelectedCrop = NoCrop
  /\ forecastRows = {}
  /\ actualRows = {}
  /\ tCropLimits = NoTrendLimits
  /\ loading = FALSE
  /\ errors = ""
  /\ loadRuns = << >>
  /\ cropRuns = << >>
  /\ last = "init"
  /\ tLast = "init"
  /\ hover = NoHover
  /\ size = [w |-> InitialW, h |-> SizeH]
  /\ wrapW = InitialW
  /\ roPending = FALSE
  /\ selectedDate = [year |-> 2023, month |-> 1, day |-> 1]
  /\ selectedState = NoState
  /\ avgTemperature = NoTemp
  /\ stationInfo = NoStationInfo
  /\ suitableCrops = {}
  /\ mapLoading = FALSE
  /\ apiError = NoApiError
  /\ requests = << >>
  /\ answered = NoAnswer
  /\ mLast = "init"

\* RainfallD3Page: stations are chosen, their loads resolve, and the chart
\* is zoomed, panned and reset
Next ==
  \/ \E st \in Stations : HandleStationChange(st)
  \/ \E i \in 1 .. MaxLoads : LoadResolved(i)
  \/ \E el \in Elements, req \in ReqScales, px \in PointersX, py \in PointersY :
       Wheel(el, req, px, py)
  \/ \E el \in Elements, d \in Drags : Drag(el, d[1], d[2])
  \/ ResetStart
  \/ ResetEnd

Spec == Init /\ [][Next]_vars

\* RainfallD3Page: stations, years and a crop are chosen and their loads
\* resolve or fail, in any order
LoadNext ==
  \/ \E st \in Stations : HandleStationChange(st)
  \/ \E yr \in YEAR_OPTIONS : HandleYearChange(yr)
  \/ \E i \in 1 .. MaxLoads : LoadResolved(i)
  \/ \E i \in 1 .. MaxLoads : LoadRejected(i)
  \/ \E crop \in Crops \cup {NoCrop} : HandleCropChange(crop)
  \/ \E i \in 1 .. MaxCropLoads, ok \in BOOLEAN : CropResolved(i, ok)

LoadSpec == Init /\ [][LoadNext]_vars

\* RainfallD3Page: station 1 and a crop are chosen, their loads resolve, and
\* the chart is zoomed with the wheel
OverlayNext ==
  \/ HandleStationChange(1)
  \/ \E i \in 1 .. MaxLoads : LoadResolved(i)
  \/ \E crop \in Crops \cup {NoCrop} : HandleCropChange(crop)
  \/ \E i \in 1 .. MaxCropLoads, ok \in BOOLEAN : CropResolved(i, ok)
  \/ \E el \in Elements, req \in ReqScales, px \in PointersX, py \in PointersY :
       Wheel(el, req, px, py)

OverlaySpec == Init /\ [][OverlayNext]_vars

\* TrendsD3Page
TrendsNext ==
  \/ StatesLoaded
  \/ \E st \in ApiStates : TrendStateChange(st)
  \/ \E m \in TrendMonths : TrendMonthChange(m)
  \/ \E yr \in YEAR_OPTIONS : TrendYearChange(yr)
  \/ \E i \in 1 .. MaxRuns : TrendLoadResolved(i)
  \/ \E i \in 1 .. MaxRuns : TrendLoadRejected(i)
  \/ \E crop \in Crops \cup {NoCrop} : TrendCropChange(crop)
  \/ \E i \in 1 .. MaxCropRuns, ok \in BOOLEAN : TrendCropResolved(i, ok)

TrendsSpec == Init /\ [][TrendsNext]_vars

(***************************************************************************)
(* Properties                                                              *)
(***************************************************************************)
BaseX0Range == <<R(0), R(width)>>

\* the scene a run of the render effect draws from the current React state
FreshBars ==
  IF ~BarsDrawn THEN {}
  ELSE DrawBars(chartData, barDomain, selectedStations, BaseX0Range,
                X1Range(BaseX0Range),
                X2Range(X1Range(BaseX0Range), selectedStations), yDom)

\* C1: once the load of the newest selection is no longer in flight, chartData
\* is what that selection loads (or empty, when its load failed or the
\* selection is empty): no completion of an earlier load overwrites it
C1_LatestSelectionApplied ==
  (\A i \in 1 .. Len(loads) : ~loads[i].latest)
    => /\ chartData \in {{}, FlatData(selectedStations, selectedYears)}
       /\ barDomain = NewDomain(chartData)

\* C2: the completion or failure of a fetch whose effect run was superseded
\* writes none of forecastRows, actualRows, cropLimits, loading, errors
C2_StaleRunWritesNothing ==
  [][tLast' \in {"staleTrendResolved", "staleTrendRejected", "staleTrendCrop"}
       => UNCHANGED <<forecastRows, actualRows, tCropLimits, loading, errors>>]_vars

\* a superseded load run has completed while the run that replaced it still
\* waits, and the chart keeps showing "loading"
C2_Witness ==
  /\ tLast \in {"staleTrendResolved", "staleTrendRejected"}
  /\ loadRuns # << >>
  /\ loading

\* C3: when handleResetZoom's transition has run to its end, the ranges of
\* x0, x1, x2 and the value scale, and every rect, are those of a fresh draw
C3_ResetRestoresInitialRender ==
  last = "resetEnd"
    => /\ x0r = BaseX0Range
       /\ newYDom = yDom
       /\ BarsDrawn => /\ x1r = X1Range(BaseX0Range)
                       /\ x2r = X2Range(X1Range(BaseX0Range), selectedStations)
       /\ bars = FreshBars

\* a reset has completed on a chart with bars that had been zoomed through
\* the overlay rect
C3_Witness ==
  /\ last = "resetEnd"
  /\ BarsDrawn
  /\ rectZoom.k # R(1)

\* C4: a run of the render effect caused by a load that resolves with the
\* rows already shown, all other inputs and the stored transform being the
\* same, leaves every rect and the overlay as they were
C4_RedrawIdempotent ==
  [][(/\ loads' # loads
      /\ chartData' = chartData
      /\ barDomain' = barDomain
      /\ cropLimits' = cropLimits
      /\ selectedStations' = selectedStations
      /\ svgZoom' = svgZoom)
       => /\ BarsOf(last', chartData', barDomain', selectedStations',
                    x0r', x1r', x2r', newYDom') = bars
          /\ OverlayOf(last', cropLimits', newYDom') = overlay]_vars

\* C5: after the redraw a station selection change causes, the transform the
\* next gesture continues from is the identity, on the svg and on the rect
C5_ShapeChangeResetsTransform ==
  last = "stations" => (svgZoom = zoomIdentity /\ rectZoom = zoomIdentity)

C7_NoBlankSpace ==
  /\ RLe(x0r[1], R(0))
  /\ RLe(R(width), x0r[2])
  /\ RLe(R(height), YAt(newYDom, yDom[1]))
  /\ RLe(YAt(newYDom, yDom[2]), R(0))

\* a zoomed chart has been panned until its right edge met the plot's
C7_Witness ==
  /\ last = "zoom"
  /\ x0r[2] = R(width)
  /\ RLt(x0r[1], R(0))

\* C8: whenever rects are drawn, a sample whose rainfall is 0 has its rect,
\* of height 1 at y = scale(0) - 1, with the value scale of the last draw or
\* zoom event
C8_ZeroValueBar ==
  BarsDrawn =>
    \A d \in chartData :
      d.rainfall = R(0) =>
        \E b \in bars : /\ b.d = d
                        /\ b.h = R(1)
                        /\ b.y = RSub(YAt(newYDom, R(0)), R(1))

\* a chart holding a zero sample has been zoomed in
C8_Witness ==
  /\ last = "zoom"
  /\ BarsDrawn
  /\ svgZoom.k # R(1)
  /\ \E d \in chartData : d.rainfall = R(0)

\* C9: a rect's opacity is 0.4 for rainfall 0 (forecast or not), else 0.7 for
\* a forecast, else 1; for station 1 with years 2023 (0 mm) and 2025
\* (45.2 mm) the Jan group holds exactly two rects: height 1 at opacity 0.4,
\* and height - y(45.2) at opacity 0.7
C9_Scenario == FlatData({1}, {2023, 2025})

C9_Opacity ==
  /\ \A b \in bars :
       b.opacity = IF b.d.rainfall = R(0) THEN <<2, 5>>
                   ELSE IF b.d.type = "forecast" THEN <<7, 10>> ELSE R(1)
  /\ (chartData = C9_Scenario /\ selectedStations = {1})
       => /\ Cardinality(bars) = 2
          /\ \A b, c \in bars : b.gx = c.gx /\ b.sx = c.sx
          /\ \E b \in bars : /\ b.d.year = 2023
                             /\ b.h = R(1)
                             /\ b.opacity = <<2, 5>>
          /\ \E b \in bars : /\ b.d.year = 2025
                             /\ b.h = RSub(R(height), YAt(yDom, <<226, 5>>))
                             /\ b.opacity = <<7, 10>>

\* the scenario's two rows are drawn
C9_Witness ==
  /\ chartData = C9_Scenario
  /\ selectedStations = {1}
  /\ BarsDrawn

\* C10: whenever rects are drawn, x1's range is [0, x0.bandwidth()] and x2's
\* is [0, x1.bandwidth()], every station band lies in [0, x0.bandwidth()] and
\* every key band in [0, x1.bandwidth()]
C10_NestedRanges ==
  BarsDrawn =>
    LET b0 == X0(x0r)
        b1 == X1(x1r, selectedStations)
        b2 == X2(x2r, barDomain)
    IN  /\ x1r = <<R(0), b0.bandwidth>>
        /\ x2r = <<R(0), b1.bandwidth>>
        /\ \A i \in 1 .. Cardinality(selectedStations) :
             /\ RLe(R(0), BandAt(b1, i))
             /\ RLe(RAdd(BandAt(b1, i), b1.bandwidth), b0.bandwidth)
        /\ \A i \in 1 .. Len(barDomain) :
             /\ RLe(R(0), BandAt(b2, i))
             /\ RLe(RAdd(BandAt(b2, i), b2.bandwidth), b1.bandwidth)

\* two stations' bars have been zoomed
C10_Witness ==
  /\ last = "zoom"
  /\ BarsDrawn
  /\ Cardinality(selectedStations) = 2
  /\ x0r # BaseX0Range

\* the largest rainfall value of a non-empty dataset
LargestValue(data) ==
  (CHOOSE a \in data : \A b \in data : RLe(b.rainfall, a.rainfall)).rainfall

\* cropLimits.max if a crop range is present
SuitabilityMax == IF cropLimits = NoLimits THEN R(0) ELSE cropLimits.max

\* C11: for every non-empty dataset the value scale's domain is
\* [0, 1.1 * max(largest rainfall value, cropLimits.max if present)]
C11_PaddedMaxOfLargest ==
  chartData # {} =>
    yDom = <<R(0), RMul(RMax(LargestValue(chartData), SuitabilityMax),
                        <<11, 10>>)>>

\* an all-zero dataset is drawn under a crop range, and the value scale's
\* domain ends at 1.1 * 100
C11_ZeroDataUnderCrop ==
  /\ chartData # {}
  /\ LargestValue(chartData) = R(0)
  /\ cropLimits # NoLimits
  /\ yDom = <<R(0), R(110)>>

\* the series keys x2 holds a slot for
KeySlots == { barDomain[i] : i \in 1 .. Len(barDomain) }

\* C12: at the redraw that follows the load of the current selection, x0
\* holds the 12 months, x1 one slot per selected station, and x2 the series
\* key of every selected year, also of a year the answer holds no row of
C12_RequestedCategoriesKeepSlots ==
  (last = "loadResolved" /\ loads = << >> /\ BarsDrawn)
    => /\ Cardinality(MONTHS) = NumMonths
       /\ \A st \in selectedStations :
            IndexOf(SortStations(selectedStations), st) # 0
       /\ \A yr \in selectedYears : KeyOf(yr) \in KeySlots

\* station 2 is drawn with 2024 selected, and x2 holds no slot for
\* 2024-actual
C12_SelectedYearWithoutSlot ==
  /\ last = "loadResolved"
  /\ loads = << >>
  /\ BarsDrawn
  /\ selectedStations = {2}
  /\ 2024 \in selectedYears
  /\ "2024-actual" \notin KeySlots

\* a record that carries its month and its station
WellFormed(d) == d.month # NoMonth /\ d.station # NoStation

\* C13: at the redraw that follows the load of the current selection, no
\* rect exists for a record without month or station, no rect's month or
\* station group is translated to an undefined coordinate, and every
\* well-formed record has its rect
C13_MalformedRecordsDropped ==
  (last = "loadResolved" /\ loads = << >> /\ BarsDrawn)
    => /\ \A b \in bars : /\ WellFormed(b.d)
                           /\ b.gx # Undef
                           /\ b.sx # Undef
       /\ \A d \in chartData : WellFormed(d) => \E b \in bars : b.d = d

\* a rect exists for a record without month, in a group translated to
\* x0(undefined)
C13_RectOfRecordWithoutMonth ==
  /\ last = "loadResolved"
  /\ loads = << >>
  /\ \E b \in bars : b.d.month = NoMonth /\ b.gx = Undef


(***************************************************************************)
(* C14: a redraw with no data                                              *)
(***************************************************************************)
\* scenes a redraw may find in the svg
PreviousScenes == SUBSET MappedRows({1}, 2025)

\* C14: whenever chartData is empty (nothing selected, or a failed load),
\* the redraw leaves no rect of the previous scene and draws none, in
\* RainfallD3Page and in the older component, and its scales are defined:
\* the value scale has the fallback domain and the month scale its range
C14_EmptyDataDrawsNoBar ==
  chartData = {}
    => /\ rects = {}
       /\ bars = {}
       /\ \A old \in PreviousScenes :
            KJRects(old, chartData, barDomain, selectedStations) = {}
       /\ x0r # NoRange
       /\ RLt(R(0), yDom[2])

\* station 1's bars were drawn, then the station was unticked
C14_ClearedBySelection ==
  /\ last = "stations" /\ selectedStations = {} /\ loads = << >>
  /\ error = NoError /\ chartData = {} /\ rects = {}

\* a load failed
C14_ClearedByFailure ==
  last = "loadRejected" /\ error = LoadFailed /\ chartData = {} /\ rects = {}

(***************************************************************************)
(* TrendsD3Page: the scales and the crop band of the draw effect           *)
(***************************************************************************)
\* margin = { top: 20, right: 24, bottom: 40, left: 56 }
InnerW(w) == w - 56 - 24
InnerH(h) == h - 20 - 40

\* the temperatures of forecastSeries (rows of the selected month and year,
\* temp: +yhat) and of actualSeries (every row)
SeriesTemps(fRows, aRows, month, year) ==
  { r.yhat : r \in { v \in fRows : v.month = month /\ v.year = year } }
    \cup { r.temp : r \in aRows }

MaxOf(S) == CHOOSE a \in S : \A b \in S : b <= a
MinOf(S) == CHOOSE a \in S : \A b \in S : a <= b
Min2(a, b) == IF a < b THEN a ELSE b
Max2(a, b) == IF a < b THEN b ELSE a

\* [domainMin, domainMax]: d3.max(...) ?? 35 and d3.min(...) ?? 0, widened
\* to 0 and to the crop limits
TrendDomain(temps, limits) ==
  LET yMax == IF temps = {} THEN 35 ELSE MaxOf(temps)
      yMin == IF temps = {} THEN 0 ELSE MinOf(temps)
      dMin == Min2(0, yMin)
  IN  IF limits = NoTrendLimits THEN <<dMin, yMax>>
      ELSE <<Min2(dMin, limits.min), Max2(yMax, limits.max)>>

\* d3.tickIncrement(start, stop, 10) for a span of 10 or more: the power of
\* ten below span / 10, times 10, 5, 2 or 1 as the quotient reaches sqrt(50),
\* sqrt(10), sqrt(2)
TickIncrement(start, stop) ==
  LET span == stop - start
      unit == IF span < 100 THEN 1 ELSE IF span < 1000 THEN 10 ELSE 100
      sq == span * span
      u2 == 100 * unit * unit
  IN  IF sq >= 50 * u2 THEN 10 * unit
      ELSE IF sq >= 10 * u2 THEN 5 * unit
      ELSE IF sq >= 2 * u2 THEN 2 * unit ELSE unit

FloorTo(v, step) == (v \div step) * step
CeilTo(v, step) == 0 - FloorTo(0 - v, step)

\* scale.nice(): the domain is widened to multiples of the tick step until
\* the step no longer changes
RECURSIVE NiceFrom(_, _, _)
NiceFrom(start, stop, prestep) ==
  LET step == TickIncrement(start, stop)
  IN  IF step = prestep THEN <<start, stop>>
      ELSE NiceFrom(FloorTo(start, step), CeilTo(stop, step), step)

Nice(dom) == NiceFrom(dom[1], dom[2], 0)

\* y = d3.scaleLinear().domain([domainMin, domainMax]).nice().range([innerH, 0])
TrendY(dom, h, v) ==
  RMul(R(InnerH(h)), RDiv(R(dom[2] - v), R(dom[2] - dom[1])))

\* the crop band: yTop, yBottom and bandHeight = Math.max(1, yBottom - yTop)
TrendBand(dom, h, limits) ==
  LET yTop == TrendY(dom, h, limits.max)
      yBottom == TrendY(dom, h, limits.min)
  IN  [y |-> yTop, h |-> RMax(R(1), RSub(yBottom, yTop))]

\* the value scale's domain of the draw effect's last run
tYDom ==
  Nice(TrendDomain(SeriesTemps(forecastRows, actualRows, selectedMonth,
                               selectedYear), tCropLimits))

(***************************************************************************)
(* TrendsD3Page: the hover handlers of the draw effect                     *)
(***************************************************************************)
\* forecastSeries: one series per state of forecastRows, its values the rows
\* of the selected month and year as {day, temp: +yhat}
ForecastSeries(fRows, month, year) ==
  { [key |-> st,
     values |-> { [day |-> v.day, temp |-> v.yhat] :
                    v \in { r \in fRows : r.state = st /\ r.month = month
                                          /\ r.year = year } }] :
      st \in { r.state : r \in fRows } }

\* actualSeries: one series per state of actualRows with all its rows
ActualSeries(aRows) ==
  { [key |-> st,
     values |-> { [day |-> v.day, temp |-> v.temp] :
                    v \in { r \in aRows : r.state = st } }] :
      st \in { r.state : r \in aRows } }

\* mergedForHover = forecastSeries.length ? forecastSeries : actualSeries
MergedForHover(fRows, aRows, month, year) ==
  IF ForecastSeries(fRows, month, year) # {}
  THEN ForecastSeries(fRows, month, year) ELSE ActualSeries(aRows)

\* .sort((a, b) => d3.ascending(a.day, b.day)): the values by day
RECURSIVE SortByDay(_)
SortByDay(vals) ==
  IF vals = {} THEN << >>
  ELSE LET v == CHOOSE a \in vals : \A b \in vals : a.day <= b.day
       IN  <<v>> \o SortByDay(vals \ {v})

\* x = d3.scaleLinear().domain([1, 31]).range([0, innerW]) and its invert
TrendX(w, day) == RMul(R(InnerW(w)), RDiv(RSub(day, R(1)), R(30)))
TrendXInvert(w, mx) == RAdd(R(1), RDiv(RMul(R(30), mx), R(InnerW(w))))

\* faulty variant: the left bisection alone
BisectLeft(a, day) ==
  Cardinality({ j \in 1 .. Len(a) - 1 : RLt(R(a[j].day), day) })

\* d3.bisector(d => d.day).center(a, day), as a 0-based index: the left
\* bisection of day in a[0 .. n-2], moved one down when that sample is
\* strictly nearer
BisectCenter(a, day) ==
  LET n == Len(a)
      i == Cardinality({ j \in 1 .. n - 1 : RLt(R(a[j].day), day) })
  IN  IF i > 0 /\ RLt(RSub(day, R(a[i].day)), RSub(R(a[i + 1].day), day))
      THEN i - 1 ELSE i

\* idx = Math.max(0, Math.min(s.values.length - 1, i))
ClampIdx(n, i) == Max2(0, Min2(n - 1, i))

RAbs(p) == IF RLt(p, R(0)) THEN RSub(R(0), p) ELSE p

\* Math.round of a non-negative number
Round(p) == (2 * p[1] + p[2]) \div (2 * p[2])

\* whether s.values[idx] is undefined for some hovered series, so that
\* v.temp throws
HoverThrows(series) == \E s \in series : s.values = {}

\* nearest: for each series the sample at the clamped centre index, with its
\* distance in pixels from the pointer's y
Nearest(series, dom, h, day, my) ==
  { LET a == SortByDay(s.values)
        v == a[ClampIdx(Len(a), BisectCenter(a, day)) + 1]
    IN  [state |-> s.key, day |-> v.day, temp |-> v.temp,
         dy |-> RAbs(RSub(TrendY(dom, h, v.temp), my))] : s \in series }

\* nearest.reduce((a, b) => (a.dy < b.dy ? a : b)): a candidate of least dy
\* (which one among equals depends on the order of the API's rows)
FocusChoices(nearest) ==
  { c \in nearest : \A o \in nearest : RLe(c.dy, o.dy) }

\* pointer positions inside the hover rect
PointerMX == {R(0), R(10), <<44, 3>>, <<88, 3>>}
PointerMY == {R(70), R(200)}

\* on("mousemove"): nothing when no series is hovered; otherwise the
\* candidates, the focused one, the dimming of the other lines, the focus
\* line and dot and the tooltip
MouseMove(mx, my) ==
  LET series == MergedForHover(forecastRows, actualRows, selectedMonth,
                               selectedYear)
      day == TrendXInvert(size.w, mx)
      clampedDay == Max2(1, Min2(31, Round(day)))
  IN  /\ IF series = {}
         THEN hover' = [Settled(hover) EXCEPT !.mx = mx, !.my = my]
         ELSE IF HoverThrows(series)
         THEN hover' = [Settled(hover) EXCEPT !.threw = TRUE, !.mx = mx,
                                              !.my = my]
         ELSE \E f \in FocusChoices(Nearest(series, tYDom, size.h, day, my)) :
                hover' = [tooltip |-> 1, focus |-> "shown", dim |-> f.state,
                          nearest |-> Nearest(series, tYDom, size.h, day, my),
                          focused |-> f,
                          cx |-> TrendX(size.w, R(clampedDay)),
                          cy |-> TrendY(tYDom, size.h, f.temp),
                          mx |-> mx, my |-> my, threw |-> FALSE]
      /\ tLast' = "mousemove"
      /\ UNCHANGED <<allStates, selectedStates, selectedMonth, selectedYear,
                     tSelectedCrop, forecastRows, actualRows, tCropLimits,
                     loading, errors, loadRuns, cropRuns, frameVars, rainVars,
                     sceneVars, zoomVars, last, mapsVars>>

\* faulty variant: the lines are not reset
ClearedButDimmed(hv) ==
  [Settled(hv) EXCEPT !.tooltip = 0, !.focus = "none"]

\* what mouseleave sets: tooltip opacity 0, focus layer display none, the
\* forecast lines' opacity 1 and the actual lines' 0.9
Cleared(hv) ==
  [Settled(hv) EXCEPT !.tooltip = 0, !.focus = "none", !.dim = NoFocus]

\* on("mouseleave")
MouseLeave ==
  /\ hover' = Cleared(hover)
  /\ tLast' = "mouseleave"
  /\ UNCHANGED <<allStates, selectedStates, selectedMonth, selectedYear,
                 tSelectedCrop, forecastRows, actualRows, tCropLimits,
                 loading, errors, loadRuns, cropRuns, frameVars, rainVars,
                 sceneVars, zoomVars, last, mapsVars>>

\* the opacity attribute of a drawn line: 1 or 0.25 after a mousemove,
\* otherwise what the draw effect or mouseleave set (the forecast lines'
\* fade-in is taken at its end)
LineOpacity(kind, key) ==
  IF hover.dim # NoFocus
  THEN (IF key = hover.dim THEN R(1) ELSE <<1, 4>>)
  ELSE (IF kind = "forecast" THEN R(1) ELSE <<9, 10>>)

\* TrendsD3Page: states, month and year are picked, loads resolve, and the
\* pointer moves over the plot and leaves it
HoverNext ==
  \/ StatesLoaded
  \/ \E st \in ApiStates : TrendStateChange(st)
  \/ \E m \in TrendMonths : TrendMonthChange(m)
  \/ \E yr \in {2024, 2025} : TrendYearChange(yr)
  \/ \E i \in 1 .. MaxRuns : TrendLoadResolved(i)
  \/ \E mx \in PointerMX, my \in PointerMY : MouseMove(mx, my)
  \/ MouseLeave

HoverSpec == Init /\ [][HoverNext]_vars

(***************************************************************************)
(* C15: the crop band's height                                             *)
(***************************************************************************)
\* C15: for every supplied suitability range, degenerate and inverted ones
\* included, the band rectangle of RainfallD3Page has a height >= 0 at the
\* initial render and after every zoom event
C15_BandHeightNonNegative ==
  cropLimits # NoLimits => RLe(R(0), overlay.h)

\* the render effect has drawn the band of the inverted range
C15_InvertedRangeAtFreshDraw ==
  /\ cropLimits = LimitsOf("canola") /\ ~ZoomedBy(last)
  /\ RLt(overlay.h, R(0))

\* the part of C15 that holds in RainfallD3Page: after a zoom event
C15_ZoomedBandHeight ==
  (cropLimits # NoLimits /\ ZoomedBy(last)) => RLe(R(0), overlay.h)

\* the part of C15 about TrendsD3Page: the band's height is at least 1
C15_TrendsBandHeight ==
  tCropLimits # NoTrendLimits
    => RLe(R(1), TrendBand(tYDom, size.h, tCropLimits).h)

\* TrendsD3Page has drawn the band of the inverted range
C15_TrendsInvertedRange ==
  /\ tCropLimits = TrendLimitsOf("canola") /\ forecastRows # {}
  /\ TrendBand(tYDom, size.h, tCropLimits).h = R(1)

(***************************************************************************)
(* C16: overlay and bars of one zoom event                                 *)
(***************************************************************************)
\* the overlay of a zoom event sits on the rescaled value scale newY of that
\* event: newY is y rescaled by the transform of the element zoomed, the
\* band's top edge and the max line are at newY(max), the min line at
\* newY(min)
OverlayOnNewY ==
  /\ newYDom \in {RescaleY(svgZoom, yDom), RescaleY(rectZoom, yDom)}
  /\ overlay.y = YAt(newYDom, cropLimits.max)
  /\ overlay.lineMax = YAt(newYDom, cropLimits.max)
  /\ overlay.lineMin = YAt(newYDom, cropLimits.min)

\* C16: after every zoom event the overlay sits on newY, and a bar whose
\* value equals the range's max has its top on the band's top edge
C16_OverlayFollowsNewY ==
  (ZoomedBy(last) /\ cropLimits # NoLimits)
    => /\ OverlayOnNewY
       /\ \A b \in bars : b.d.rainfall = cropLimits.max => b.y = overlay.y

\* C16, amended: the same for every bar of non-zero value; a bar of value 0
\* under a range whose max is 0 has its top one pixel above the band's top
C16_OverlayFollowsNewYNonZero ==
  (ZoomedBy(last) /\ cropLimits # NoLimits)
    => /\ OverlayOnNewY
       /\ \A b \in bars :
            b.d.rainfall = cropLimits.max
              => b.y = IF b.d.rainfall = R(0) THEN RSub(overlay.y, R(1))
                       ELSE overlay.y

\* a zoom event changed the value scale while a bar of non-zero value
\* reaches the range's max
C16_Witness ==
  /\ ZoomedBy(last) /\ cropLimits # NoLimits /\ newYDom # yDom
  /\ \E b \in bars : b.d.rainfall = cropLimits.max /\ b.d.rainfall # R(0)

\* a zoom event while a bar of value 0 stands under a range whose max is 0
C16_ZeroBarAtZeroMax ==
  /\ ZoomedBy(last) /\ cropLimits # NoLimits
  /\ \E b \in bars : b.d.rainfall = cropLimits.max /\ b.d.rainfall = R(0)

(***************************************************************************)
(* C17, C18: hover                                                         *)
(***************************************************************************)
\* the series a mousemove hovers, and the day under the pointer
Hovered == MergedForHover(forecastRows, actualRows, selectedMonth, selectedYear)
PointerDay == TrendXInvert(size.w, hover.mx)

\* |y(temp) - pointerY| of a candidate
PixelDy(c) == RAbs(RSub(TrendY(tYDom, size.h, c.temp), hover.my))

\* every hovered series has a candidate among the last mousemove's, a sample
\* of the series no farther in day from the pointer than any other sample
CandidatesNearest ==
  \A s \in Hovered :
    \E c \in hover.nearest :
      /\ c.state = s.key
      /\ [day |-> c.day, temp |-> c.temp] \in s.values
      /\ \A v \in s.values :
           RLe(RAbs(RSub(R(c.day), PointerDay)), RAbs(RSub(R(v.day), PointerDay)))

\* the focused candidate is one of least pixel distance; when the pointer is
\* on one candidate's point and on no other's, that candidate is focused
FocusNearest ==
  /\ hover.focused \in hover.nearest
  /\ \A c \in hover.nearest : RLe(PixelDy(hover.focused), PixelDy(c))
  /\ \A c \in hover.nearest :
       (PixelDy(c) = R(0) /\ \A o \in hover.nearest \ {c} : PixelDy(o) # R(0))
         => hover.focused = c /\ hover.dim = c.state

\* C17: after every mousemove over a chart with at least one hovered series,
\* the handler has run to its end, each hovered series contributed its
\* sample nearest in day to the pointer, and the focused series minimises
\* |y(temp) - pointerY|
C17_HoverResolvesNearest ==
  (tLast = "mousemove" /\ Hovered # {})
    => ~hover.threw /\ CandidatesNearest /\ FocusNearest

\* a mousemove while a hovered series has no sample of the selected month
C17_HoverOverSeriesWithoutSample ==
  /\ tLast = "mousemove" /\ Hovered # {} /\ hover.threw
  /\ \E s \in Hovered : s.values = {}

\* the part of C17 that holds: when every hovered series has a sample
C17_SampledSeriesHover ==
  (tLast = "mousemove" /\ Hovered # {} /\ \A s \in Hovered : s.values # {})
    => ~hover.threw /\ CandidatesNearest /\ FocusNearest

\* the pointer is on one of two series' points and that series is focused
C17_PointerOnOnePoint ==
  /\ tLast = "mousemove" /\ Cardinality(hover.nearest) = 2
  /\ PixelDy(hover.focused) = R(0)
  /\ \A o \in hover.nearest \ {hover.focused} : PixelDy(o) # R(0)

\* a series is either without any sample or all series have samples
C17_SeriesAllEmptyOrNone ==
  (\E s \in Hovered : s.values = {}) => \A s \in Hovered : s.values = {}

\* C18: when the pointer has left the plot, whatever was hovered before, the
\* tooltip's opacity is 0, the focus line and dot are not displayed, every
\* forecast line has opacity 1 and every actual line 0.9
C18_LeaveClearsHover ==
  tLast = "mouseleave"
    => /\ hover.tooltip = 0
       /\ hover.focus = "none"
       /\ \A s \in ForecastSeries(forecastRows, selectedMonth, selectedYear) :
            LineOpacity("forecast", s.key) = R(1)
       /\ \A s \in ActualSeries(actualRows) :
            LineOpacity("actual", s.key) = <<9, 10>>

\* the pointer left after a mousemove had focused one of two actual lines
C18_Witness ==
  /\ tLast = "mouseleave" /\ hover.cx # Undef
  /\ Cardinality(ActualSeries(actualRows)) = 2

\* the pointer left after a mousemove had focused a forecast line
C18_ForecastWitness ==
  /\ tLast = "mouseleave" /\ hover.cx # Undef
  /\ \E s \in ForecastSeries(forecastRows, selectedMonth, selectedYear) :
       s.values # {}

(***************************************************************************)
(* The containers' sizes                                                   *)
(***************************************************************************)
\* client sizes the browser may give the Rainfall svg: not laid out,
\* narrower than the margins, and two sizes with a plot
ClientSizes ==
  {<<0, 0>>, <<100, height + 100>>, LaidOut, <<width + 131, height + 100>>}

\* the browser lays the Rainfall svg out at another size.  RainfallD3Page
\* registers no listener or observer for it, and no dependency of the render
\* effect changes
SvgResized(cs) ==
  /\ cs # clientSize
  /\ clientSize' = cs
  /\ UNCHANGED <<selectedYears, selectedStations, selectedCrop, chartData,
                 barDomain, cropLimits, error, loads, cropLoads, sceneVars,
                 zoomVars, last, trendsVars, mapsVars>>

\* widths the browser may give the Trends wrapper
WrapWidths == {0, 400, InitialW, 1200}

\* Math.max(560, Math.floor(e.contentRect.width))
MinW == 560
ObservedW(cw) == Max2(MinW, cw)

\* the Trends wrapper is laid out at another width: its ResizeObserver has a
\* notification to deliver
WrapResized(cw) ==
  /\ cw # wrapW
  /\ wrapW' = cw
  /\ roPending' = TRUE
  /\ UNCHANGED <<allStates, selectedStates, selectedMonth, selectedYear,
                 tSelectedCrop, forecastRows, actualRows, tCropLimits,
                 loading, errors, loadRuns, cropRuns, tLast, hover, size,
                 rainVars, sceneVars, zoomVars, last, mapsVars>>

\* the ResizeObserver callback: setSize({ w, h: 480 }); size is a dependency
\* of the draw effect, which runs again
ResizeObserved ==
  /\ roPending
  /\ roPending' = FALSE
  /\ size' = [w |-> ObservedW(wrapW), h |-> SizeH]
  /\ hover' = [NoHover EXCEPT !.tooltip = hover.tooltip]
  /\ tLast' = "resized"
  /\ UNCHANGED <<allStates, selectedStates, selectedMonth, selectedYear,
                 tSelectedCrop, forecastRows, actualRows, tCropLimits,
                 loading, errors, loadRuns, cropRuns, wrapW,
                 rainVars, sceneVars, zoomVars, last, mapsVars>>

\* both pages: their containers are resized; on RainfallD3Page stations are
\* ticked and loads resolve.  The browser delivers a waiting ResizeObserver
\* notification
SizeNext ==
  \/ \E cs \in ClientSizes : SvgResized(cs)
  \/ \E st \in Stations : HandleStationChange(st)
  \/ \E i \in 1 .. MaxLoads : LoadResolved(i)
  \/ \E cw \in WrapWidths : WrapResized(cw)
  \/ ResizeObserved

SizeSpec == Init /\ [][SizeNext]_vars /\ WF_vars(ResizeObserved)

\* C19: every change of a chart container's size is followed by a redraw
\* whose scales are built from the new dimensions: on RainfallD3Page the
\* plot size of the last render comes to be that of the svg's client size,
\* on TrendsD3Page a waiting notification is followed by a draw at the
\* observed width
C19_ResizeFollowedByRedraw ==
  /\ (plotSize # PlotSize(clientSize)) ~> (plotSize = PlotSize(clientSize))
  /\ roPending ~> (~roPending /\ size.w = ObservedW(wrapW))

\* the Rainfall svg has another size than the one its scene was built for
C19_StaleRainfallPlot ==
  plotSize # PlotSize(clientSize) /\ PlotSize(clientSize)[1] > 0

\* the part of C19 that holds: TrendsD3Page
C19_TrendsResizeRedraws ==
  roPending ~> (~roPending /\ size.w = ObservedW(wrapW))

\* C20: no render pass builds its scales with a non-positive plot width or
\* height, on RainfallD3Page and on TrendsD3Page
C20_PositivePlot ==
  /\ plotSize[1] > 0 /\ plotSize[2] > 0
  /\ InnerW(size.w) > 0 /\ InnerH(size.h) > 0

\* the render effect of RainfallD3Page ran while the svg was not laid out
C20_RenderedAtZeroSize ==
  /\ last = "stations" /\ clientSize = <<0, 0>>
  /\ plotSize[1] <= 0 /\ plotSize[2] <= 0

\* the part of C20 that holds: TrendsD3Page
C20_TrendsPositivePlot ==
  InnerW(size.w) > 0 /\ InnerH(size.h) > 0

\* TrendsD3Page drew after its wrapper had shrunk to nothing
C20_TrendsDrawnAtZeroWidth ==
  tLast = "resized" /\ wrapW = 0 /\ size.w = MinW

(***************************************************************************)
(* C21: the zoom handler depends on the event's transform only             *)
(***************************************************************************)
\* the rects the handler sets when called with t alone on the scales the
\* render effect builds from the current React state
SceneOfTransform(t) ==
  LET r0 == <<ApplyX(t, R(0)), ApplyX(t, R(width))>>
      r1 == X1Range(r0)
      r2 == X2Range(r1, selectedStations)
      nyd == RescaleY(t, <<R(0), PaddedMax(chartData, cropLimits)>>)
  IN  [x0 |-> r0, ny |-> nyd,
       rects |-> IF BarsDrawn
                 THEN ZoomBars(chartData, barDomain, selectedStations, r0, r1,
                               r2, nyd)
                 ELSE {}]

\* C21: after zoom events t1..tn the month scale's range, the rescaled value
\* scale and the rects are those the handler gives for tn alone, tn being
\* the transform stored on the element that was zoomed
C21_GeometryOfLastTransform ==
  last = "zoom"
    => \E t \in {svgZoom, rectZoom} :
         /\ x0r = SceneOfTransform(t).x0
         /\ newYDom = SceneOfTransform(t).ny
         /\ bars = SceneOfTransform(t).rects

\* bars are shown after zoom events on both elements that left different
\* transforms, neither the identity
C21_Witness ==
  /\ last = "zoom" /\ BarsDrawn
  /\ svgZoom # zoomIdentity /\ rectZoom # zoomIdentity /\ svgZoom # rectZoom

AscendingKeys(seq) ==
  \A i, j \in 1 .. Len(seq) : i < j => YearOfKey(seq[i]) < YearOfKey(seq[j])

\* C23: after a load of which a request failed chartData and barDomain are
\* empty and error is the load-failure message; after a load of which every
\* request succeeded error is null and barDomain is the sorted set of the
\* distinct keys of chartData
C23_AllOrNothing ==
  /\ last \in {"loadRejected", "staleLoadRejected"} =>
       /\ chartData = {}
       /\ barDomain = << >>
       /\ error = LoadFailed
       /\ bars = {}
  /\ last \in {"loadResolved", "staleLoadResolved"} =>
       /\ error = NoError
       /\ AscendingKeys(barDomain)
       /\ {barDomain[i] : i \in 1 .. Len(barDomain)} = {d.key : d \in chartData}

\* a load of two years' requests failed
C23_Witness ==
  /\ last = "loadRejected"
  /\ Cardinality(selectedYears) >= 2
  /\ selectedStations # {}
  /\ error = LoadFailed

\* a load of two years' requests succeeded after a failure
C23_ResolvedWitness ==
  /\ last = "loadResolved"
  /\ Len(barDomain) >= 2
  /\ error = NoError

\* MapsD3Page: states are clicked, the date is changed, and the responses
\* arrive in any order
MapsNext ==
  \/ \E abbr \in ValidStates : HandleStateClick(abbr)
  \/ \E yr \in DateYears : HandleDateChange("year", yr)
  \/ \E mo \in DateMonths : HandleDateChange("month", mo)
  \/ \E day \in SliderDays : HandleDaySliderChange(day)
  \/ \E i \in 1 .. MaxRequests, outcome \in Outcomes : RequestSettled(i, outcome)

MapsSpec == Init /\ [][MapsNext]_vars

(***************************************************************************)
(* MapsD3Page: the page and the latest request                             *)
(***************************************************************************)
\* the message of the latest request's response; a click on the state
\* already selected clears the message and sends nothing
AnsweredError ==
  IF answered.outcome = "rows" THEN NoApiError
  ELSE FriendlyMessage(answered.outcome)

\* C24: once the response to the latest (state, date) request has arrived,
\* avgTemperature, suitableCrops, stationInfo and apiError are those of that
\* response, whatever earlier requests' responses arrive after it
C24_LatestResponseShown ==
  answered.outcome # "none" =>
    /\ avgTemperature = ResultOf(answered.req, answered.outcome).avgTemperature
    /\ suitableCrops = ResultOf(answered.req, answered.outcome).suitableCrops
    /\ stationInfo = ResultOf(answered.req, answered.outcome).stationInfo
    /\ apiError \in {NoApiError, AnsweredError}
    /\ answered.outcome = "rows" => apiError = NoApiError

\* the response of an earlier request arrived after the latest one's and
\* the page shows the earlier request's temperature
C24_EarlierResponseShown ==
  /\ mLast = "staleSettled"
  /\ answered.outcome = "rows"
  /\ avgTemperature # NoTemp
  /\ avgTemperature # TempOf(answered.req)

\* C29: every suitability request sent carries a day that is at most the
\* number of days of its (year, month)
C29_DayWithinMonth ==
  \A i \in 1 .. Len(requests) :
    requests[i].day <= getDaysInMonth(requests[i].year, requests[i].month)

\* day 31 was selected, the month was changed to a shorter one, and a
\* request with day 31 of that month is in flight
C29_Day31OfShortMonth ==
  /\ mLast = "month"
  /\ \E i \in 1 .. Len(requests) :
       /\ requests[i].day = 31
       /\ requests[i].month \in {2, 4}
  /\ selectedDate.day = maxDaysInMonth(selectedDate)

(***************************************************************************)
(* RainfallD3Page: the samples and the band scales' domains                *)
(***************************************************************************)
\* C25: whenever bars are drawn, every sample of chartData that names a
\* station has it in the station scale's domain (selectedStations) and has
\* its key in the series-key scale's domain (barDomain), so every such bar
\* has a defined position in its station group and month group
C25_SamplesInDomains ==
  BarsDrawn =>
    /\ \A d \in chartData :
         /\ d.station # NoStation => d.station \in selectedStations
         /\ \E i \in 1 .. Len(barDomain) : barDomain[i] = d.key
    /\ \A b \in bars : b.d.station # NoStation => b.sx # Undef /\ b.x # Undef

\* a station was unticked while another stays ticked: the redraw of the
\* selection change draws the rows loaded for the station just unticked,
\* which the station scale no longer knows
C25_OldRowsUnderNewSelection ==
  /\ last = "stations"
  /\ BarsDrawn
  /\ loads # << >>
  /\ \E b \in bars : b.d.station \in Stations \ selectedStations /\ b.sx = Undef

(***************************************************************************)
(* TrendsD3Page: the series searched by the mousemove handler              *)
(***************************************************************************)
\* C26: in every state every series of mergedForHover has at least one
\* sample, also between a month or year change and the completion of the
\* forecast fetch it starts
C26_EverySeriesHasSample ==
  \A s \in Hovered : s.values # {}

\* the month was changed while the forecast of 2025 is shown and the fetch
\* of the new month is in flight: the series are rebuilt from the old rows,
\* none of which is of the new month
C26_SeriesEmptiedByMonthChange ==
  /\ tLast = "trendMonth"
  /\ selectedYear = 2025
  /\ loading
  /\ forecastRows # {}
  /\ Hovered # {}
  /\ \A s \in Hovered : s.values = {}

(***************************************************************************)
(* TrendsD3Page: the actual rows and the selected month and year           *)
(***************************************************************************)
\* what GET /temps returns for some states and the selected month and year
ActualOfSelection ==
  { ActualOf([states |-> sts, month |-> selectedMonth, year |-> selectedYear]) :
      sts \in SUBSET ApiStates }

\* C27: whenever actual-data lines are displayed, their rows were fetched
\* for the selected month and year (those of the tooltip header and the
\* caption), also while a fetch for a newer selection is in flight
C27_ActualRowsOfSelection ==
  actualRows # {} => actualRows \in ActualOfSelection

\* the month was changed while actual lines are shown: until the fetch of
\* the new month completes the lines are those of the month before
C27_ActualRowsOfMonthBefore ==
  /\ tLast = "trendMonth"
  /\ selectedYear # 2025
  /\ loading
  /\ \E i \in 1 .. Len(loadRuns) : ~loadRuns[i].ignore
  /\ actualRows # {}
  /\ actualRows \notin ActualOfSelection

(***************************************************************************)
(* RainfallD3Page: the transforms stored on the svg and on the overlay     *)
(***************************************************************************)
\* C28: after any gestures on the svg and on the overlay rect, once
\* handleResetZoom has run to completion the transform stored on each of the
\* two elements is the identity
C28_ResetClearsBothTransforms ==
  last = "resetEnd" => svgZoom = zoomIdentity /\ rectZoom = zoomIdentity

\* the reset has completed and drawn the chart at the identity while the
\* overlay rect, where the earlier gesture happened, still stores that
\* gesture's transform
C28_RectKeepsTransform ==
  /\ last = "resetEnd"
  /\ svgZoom = zoomIdentity
  /\ rectZoom # zoomIdentity
  /\ x0r = BaseX0Range
  /\ newYDom = yDom

(***************************************************************************)
(* TrendsD3Page: the loading flag                                          *)
(***************************************************************************)
\* a run of the load effect for the current selection waits for its fetch
FetchInFlight == \E i \in 1 .. Len(loadRuns) : ~loadRuns[i].ignore

\* C30: loading is true exactly while a fetch for the current selection is
\* in flight; it is false whenever none is, also after all states were
\* deselected while a fetch was in flight
C30_LoadingWhileFetching ==
  loading <=> FetchInFlight

\* the last state was deselected while its fetch was in flight: the run is
\* ignored from then on and nothing sets loading back to false
C30_LoadingAfterDeselect ==
  /\ selectedStates = {}
  /\ loading
  /\ ~FetchInFlight
  /\ forecastRows = {} /\ actualRows = {}

\* the direction of C30 that holds: while a fetch for the current selection
\* is in flight, loading is true
C30_FetchingImpliesLoading ==
  FetchInFlight => loading
====
